---------------------------- MODULE Spec2Model ----------------------------
(***************************************************************************)
(* Model of python-miscs, utils/__init__.py: the coordinate codec          *)
(* (tuple_to_index, index_to_tuple) and the sequence partitioner           *)
(* (divide_sequence_into_chunks, divide_sequence_by_n,                     *)
(* divide_indices_by_n).                                                   *)
(*                                                                         *)
(* Python's int is unbounded and Python's float is IEEE-754 binary64.      *)
(* index_to_tuple computes int(index / size): a TRUE division, whose       *)
(* quotient is rounded to the nearest binary64 and then truncated.  The    *)
(* codec's integers are therefore arbitrary-precision naturals             *)
(* (little-endian sequences of limbs) with a sign, and the division has    *)
(* its rounding and its OverflowError.                                     *)
(***************************************************************************)
EXTENDS Integers, Sequences, FiniteSets, TLC

(***************************************************************************)
(* Arbitrary-precision naturals: Python's int.                             *)
(* A magnitude is a sequence of limbs, least significant first, with no    *)
(* most-significant zero limb; << >> is 0.                                 *)
(***************************************************************************)
LimbBits == 15
Base == 2^LimbBits

Limb(a, i) == IF i <= Len(a) THEN a[i] ELSE 0

Max(S) == CHOOSE x \in S : \A y \in S : y <= x

\* a without its most-significant zero limbs.
Norm(a) ==
    LET nz == {i \in 1..Len(a) : a[i] # 0}
    IN  IF nz = {} THEN << >> ELSE SubSeq(a, 1, Max(nz))

\* The magnitude of a small natural number.
RECURSIVE Big(_)
Big(k) == IF k = 0 THEN << >> ELSE <<k % Base>> \o Big(k \div Base)

\* The value of a magnitude of at most two limbs.
Small(a) == Limb(a, 1) + Base * Limb(a, 2)

\* a * Base^k.
Shift(a, k) == IF a = << >> THEN << >> ELSE [i \in 1..k |-> 0] \o a

\* -1, 0 or 1 as a < b, a = b or a > b: the most significant limb that
\* differs decides.
BigCmp(a, b) ==
    IF Len(a) < Len(b) THEN -1
    ELSE IF Len(a) > Len(b) THEN 1
    ELSE IF \E i \in 1..Len(a) :
                a[i] < b[i] /\ \A j \in (i + 1)..Len(a) : a[j] = b[j] THEN -1
    ELSE IF a = b THEN 0
    ELSE 1

\* Resolved lower limbs L followed by resolved upper limbs U, for carry c.
Join(L, U, c) ==
    [limbs |-> L[c + 2].limbs \o U[L[c + 2].out + 2].limbs,
     out   |-> U[L[c + 2].out + 2].out]

Joined(L, U) == <<Join(L, U, -1), Join(L, U, 0), Join(L, U, 1)>>

\* One limb of value v with the carry c added: the limb and the carry out.
Resolved(v, c) == [limbs |-> <<(v + c) % Base>>, out |-> (v + c) \div Base]

\* The limbs lo..hi of a number whose limb values s (sums or differences
\* of limbs) are not yet reduced to 0..Base-1, and the carry out of limb
\* hi, for each carry c into limb lo: -1 (a borrow), 0 and 1, in that order.
RECURSIVE Resolve(_, _, _)
Resolve(s, lo, hi) ==
    IF lo = hi
    THEN <<Resolved(s[lo], -1), Resolved(s[lo], 0), Resolved(s[lo], 1)>>
    ELSE Joined(Resolve(s, lo, (lo + hi) \div 2),
                Resolve(s, (lo + hi) \div 2 + 1, hi))

\* a + b.
BigAdd(a, b) ==
    LET n == 1 + (IF Len(a) > Len(b) THEN Len(a) ELSE Len(b))
        s == [i \in 1..n |-> Limb(a, i) + Limb(b, i)]
    IN  Norm(Resolve(s, 1, n)[2].limbs)

\* a - b, for a >= b.
BigSub(a, b) ==
    IF a = << >> THEN << >>
    ELSE LET s == [i \in 1..Len(a) |-> a[i] - Limb(b, i)]
         IN  Norm(Resolve(s, 1, Len(a))[2].limbs)

\* a * d, for one limb d: the low halves of the limb products plus their
\* high halves one limb up.
MulLimb(a, d) ==
    BigAdd(Norm([i \in 1..Len(a) |-> (a[i] * d) % Base]),
           Shift(Norm([i \in 1..Len(a) |-> (a[i] * d) \div Base]), 1))

\* The sum over i in lo..hi of the low halves (h = 0) or the high halves
\* (h = 1) of the limb products a[i] * b[k + 1 - i] of column k.
RECURSIVE ColSum(_, _, _, _, _, _)
ColSum(a, b, k, h, lo, hi) ==
    IF lo > hi THEN 0
    ELSE IF lo = hi
    THEN IF h = 0 THEN (a[lo] * b[k + 1 - lo]) % Base
                  ELSE (a[lo] * b[k + 1 - lo]) \div Base
    ELSE LET mid == (lo + hi) \div 2
         IN  ColSum(a, b, k, h, lo, mid) + ColSum(a, b, k, h, mid + 1, hi)

\* a * b, by columns: column k collects the low halves of the products
\* a[i] * b[j] with i + j = k + 1 and the high halves of those of column
\* k - 1; the column totals are then split into limbs and carried.
BigMul(a, b) ==
    LET n       == Len(a) + Len(b)
        first(k) == IF k > Len(b) THEN k + 1 - Len(b) ELSE 1
        last(k)  == IF k < Len(a) THEN k ELSE Len(a)
        col     == << >> \o [k \in 1..n |->
                      ColSum(a, b, k, 0, first(k), last(k))
                      + (IF k = 1 THEN 0
                         ELSE ColSum(a, b, k - 1, 1, first(k - 1), last(k - 1)))]
    IN  IF a = << >> \/ b = << >> THEN << >>
        ELSE BigAdd(Norm([k \in 1..n |-> col[k] % Base]),
                    Shift(Norm([k \in 1..n |-> col[k] \div Base]), 1))

\* The largest t in lo..hi with d * t <= r, given d * lo <= r.
RECURSIVE QDigit(_, _, _, _)
QDigit(r, d, lo, hi) ==
    IF lo = hi THEN lo
    ELSE LET mid == (lo + hi + 1) \div 2
         IN  IF BigCmp(MulLimb(d, mid), r) <= 0
             THEN QDigit(r, d, mid, hi)
             ELSE QDigit(r, d, lo, mid - 1)

\* One step of the long division: the quotient limb t and the remainder of
\* cur < d * Base by d.  The leading limbs of cur and d bracket t.
DivStep(cur, d) ==
    IF BigCmp(cur, d) < 0 THEN [q |-> <<0>>, r |-> cur]
    ELSE LET n    == Len(d)
             cHi  == Limb(cur, n) + Base * Limb(cur, n + 1)
             low  == cHi \div (d[n] + 1)
             est  == cHi \div d[n]
             high == IF est < Base - 1 THEN est ELSE Base - 1
             t    == QDigit(cur, d, low, high)
         IN  [q |-> <<t>>, r |-> BigSub(cur, MulLimb(d, t))]

\* Long division of the limbs lo..hi of a by d, most significant first,
\* entered with the remainder r < d left by the limbs above hi: the
\* quotient's limbs lo..hi and the remainder left below lo.
RECURSIVE DivRange(_, _, _, _, _)
DivRange(a, d, lo, hi, r) ==
    IF lo = hi THEN DivStep(Norm(<<a[lo]>> \o r), d)
    ELSE LET mid == (lo + hi) \div 2
             top == DivRange(a, d, mid + 1, hi, r)
         IN  IF top.r = << >> /\ \A i \in lo..mid : a[i] = 0
             THEN [q |-> [i \in 1..(mid + 1 - lo) |-> 0] \o top.q, r |-> << >>]
             ELSE LET bot == DivRange(a, d, lo, mid, top.r)
                  IN  [q |-> bot.q \o top.q, r |-> bot.r]

\* Floor division and modulo of naturals, d > 0: a // d and a % d.
BigDivMod(a, d) ==
    IF a = << >> THEN [q |-> << >>, r |-> << >>]
    ELSE LET res == DivRange(a, d, 1, Len(a), << >>)
         IN  [q |-> Norm(res.q), r |-> res.r]

\* 2^k.
BigPow2(k) ==
    [i \in 1..(k \div LimbBits + 1) |->
        IF i = k \div LimbBits + 1 THEN 2^(k % LimbBits) ELSE 0]

RECURSIVE BitLenSmall(_)
BitLenSmall(k) == IF k = 0 THEN 0 ELSE 1 + BitLenSmall(k \div 2)

\* int.bit_length().
BitLen(a) ==
    IF a = << >> THEN 0
    ELSE LimbBits * (Len(a) - 1) + BitLenSmall(a[Len(a)])

IsOdd(a) == a # << >> /\ a[1] % 2 = 1

(***************************************************************************)
(* Python's float: IEEE-754 binary64, round to nearest, ties to even.      *)
(***************************************************************************)
DBL_MANT_DIG == 53
DBL_MAX_EXP == 1024

OverflowError == [status |-> "OverflowError"]

\* float(...) of a rounded quotient v: "integer division result too large
\* for a float" when v reaches 2^DBL_MAX_EXP.
float_of(v) ==
    IF BitLen(v) > DBL_MAX_EXP THEN OverflowError
    ELSE [status |-> "ok", value |-> v]

\* m * u rounded half-to-even to a multiple of u, where c compares the
\* part below u with u / 2 (-1, 0 or 1).
round_half_even(m, c, u) ==
    float_of(BigMul(IF c > 0 \/ (c = 0 /\ IsOdd(m)) THEN BigAdd(m, Big(1))
                    ELSE m, u))

\* The quotient q + r/d with q = mt.q * u + mt.r, rounded to a multiple of
\* u >= 1: the part below u is (mt.r * d + r) / d, compared with u / 2.
round_to_unit(mt, r, d, u) ==
    round_half_even(mt.q,
                    BigCmp(BigMul(Big(2), BigAdd(BigMul(mt.r, d), r)),
                           BigMul(u, d)),
                    u)

\* The quotient q + r/d for q of bit length e < DBL_MANT_DIG, rounded and
\* then truncated by int().
round_below_one(q, r, d, e) ==
    [status |-> "ok",
     value  |-> IF BigCmp(BigMul(BigSub(d, r),
                                 BigPow2(DBL_MANT_DIG + 1 - e)), d) <= 0
                THEN BigAdd(q, Big(1))
                ELSE q]

\* int(float) of the quotient q + r/d, q of bit length e.
\*   e < 53: the doubles around the quotient are the multiples of
\*     u = 2^(e-53) <= 1/2; q + 1 is one of them, with an even significand,
\*     so the quotient rounds up to q + 1 exactly when it is at least
\*     q + 1 - u/2, i.e. (d - r) * 2^(54-e) <= d, and int() yields q
\*     otherwise.
\*   e >= 53: the doubles around the quotient are the multiples of
\*     u = 2^(e-53) >= 1, themselves integers.
round_quotient(q, r, d, e) ==
    IF e < DBL_MANT_DIG THEN round_below_one(q, r, d, e)
    ELSE round_to_unit(BigDivMod(q, BigPow2(e - DBL_MANT_DIG)), r, d,
                       BigPow2(e - DBL_MANT_DIG))

truediv_of(dm, d) == round_quotient(dm.q, dm.r, d, BitLen(dm.q))

\* int(a / d) for naturals a and d > 0: the true quotient a / d correctly
\* rounded to binary64, ties to even (int.__truediv__), then truncated by
\* int().  The division raises OverflowError when the rounded quotient
\* reaches 2^DBL_MAX_EXP.
int_truediv(a, d) == truediv_of(BigDivMod(a, d), d)

(***************************************************************************)
(* Python's int with its sign.  The codec only compares signed values;     *)
(* its arithmetic runs after the assertions, on naturals.                  *)
(***************************************************************************)
Nat0(m) == [neg |-> FALSE, mag |-> m]

\* The Python int of a small integer k.
PyInt(k) == IF k < 0 THEN [neg |-> TRUE, mag |-> Big(0 - k)] ELSE Nat0(Big(k))

\* x < y.
IntLt(x, y) ==
    IF x.neg /\ ~y.neg THEN TRUE
    ELSE IF ~x.neg /\ y.neg THEN FALSE
    ELSE IF x.neg THEN BigCmp(x.mag, y.mag) > 0
    ELSE BigCmp(x.mag, y.mag) < 0

\* x <= y.
IntLe(x, y) == ~IntLt(y, x)

\* x * y.
IntMul(x, y) ==
    LET m == BigMul(x.mag, y.mag)
    IN  [neg |-> m # << >> /\ x.neg # y.neg, mag |-> m]

(***************************************************************************)
(* Coordinate codec.  A Python tuple t is the sequence <<t[0], t[1]>>.     *)
(***************************************************************************)
AssertionError == [status |-> "AssertionError"]

\* tuple_to_index with the upper bounds compared by <= instead of <.
tuple_to_index_inclusive(t, size) ==
    IF ~(IntLe(PyInt(0), t[1]) /\ IntLe(t[1], size)
         /\ IntLe(PyInt(0), t[2]) /\ IntLe(t[2], size))
    THEN AssertionError
    ELSE [status |-> "ok",
          value  |-> Nat0(BigAdd(BigMul(t[1].mag, size.mag), t[2].mag))]

\* utils/__init__.py, tuple_to_index.
tuple_to_index(t, size) ==
    IF ~(IntLe(PyInt(0), t[1]) /\ IntLt(t[1], size)
         /\ IntLe(PyInt(0), t[2]) /\ IntLt(t[2], size))
    THEN AssertionError
    ELSE [status |-> "ok",
          value  |-> Nat0(BigAdd(BigMul(t[1].mag, size.mag), t[2].mag))]

\* The tuple (x, y) of index_to_tuple, or what computing x raised.
tuple_of(x, y) ==
    IF x.status # "ok" THEN x
    ELSE [status |-> "ok", value |-> <<Nat0(x.value), Nat0(y)>>]

\* utils/__init__.py, index_to_tuple.  Past the assertion index >= 0 and
\* size * size > index, so size # 0; the sizes explored are >= 0.
index_to_tuple(index, size) ==
    IF ~(IntLe(PyInt(0), index) /\ IntLt(index, IntMul(size, size)))
    THEN AssertionError
    ELSE tuple_of(int_truediv(index.mag, size.mag),
                  BigDivMod(index.mag, size.mag).r)

\* f applied to the value of r, or what r raised.
then_index_to_tuple(r, size) ==
    IF r.status # "ok" THEN r ELSE index_to_tuple(r.value, size)

then_tuple_to_index(r, size) ==
    IF r.status # "ok" THEN r ELSE tuple_to_index(r.value, size)

\* tests/test_utils.py: index_to_tuple(tuple_to_index(t, size), size).
decode_of_encode(t, size) == then_index_to_tuple(tuple_to_index(t, size), size)

\* tests/test_utils.py: tuple_to_index(index_to_tuple(index, size), size).
encode_of_decode(index, size) ==
    then_tuple_to_index(index_to_tuple(index, size), size)

(***************************************************************************)
(* Sequence partitioner.  Lengths and counts are small: plain integers.    *)
(***************************************************************************)
\* a // b and a % b for b # 0: Python floors, the remainder has b's sign.
PyFloorDiv(a, b) == IF b > 0 THEN a \div b ELSE (0 - a) \div (0 - b)
PyMod(a, b) == a - b * PyFloorDiv(a, b)

\* A slice bound clamped as Python clamps it: negative bounds count from
\* the end.
Clamp(k, len) ==
    IF k < 0 THEN (IF k + len < 0 THEN 0 ELSE k + len)
    ELSE IF k > len THEN len ELSE k

\* seq[a:b] taken with its end included.
Slice_inclusive(seq, a, b) ==
    SubSeq(seq, Clamp(a, Len(seq)) + 1, Clamp(b + 1, Len(seq)))

\* seq[a:b].
Slice(seq, a, b) == SubSeq(seq, Clamp(a, Len(seq)) + 1, Clamp(b, Len(seq)))

\* range(0, stop, step) without its last, partial step.
RangeFrom0_whole(stop, step) ==
    IF step < 0 \/ stop <= 0 THEN << >>
    ELSE [k \in 1..(stop \div step) |-> (k - 1) * step]

\* list(range(0, stop, step)) for step # 0.
RangeFrom0(stop, step) ==
    IF step < 0 \/ stop <= 0 THEN << >>
    ELSE [k \in 1..((stop + step - 1) \div step) |-> (k - 1) * step]

\* utils/__init__.py, divide_sequence_into_chunks.  range() raises
\* ValueError for a zero step.
divide_sequence_into_chunks(seq, chunk_size) ==
    IF chunk_size = 0 THEN [status |-> "ValueError"]
    ELSE LET xs == RangeFrom0(Len(seq), chunk_size)
         IN  [status |-> "ok",
              value  |-> [k \in 1..Len(xs) |->
                            Slice(seq, xs[k], xs[k] + chunk_size)]]

\* utils/__init__.py, divide_indices_by_n: the locals on entry.  The
\* division by n = 0 raises ZeroDivisionError before anything else.
divide_indices_enter(length, n) ==
    [chunk_size |-> PyFloorDiv(length, n), remainder |-> PyMod(length, n),
     indices |-> << >>, head |-> 0, i |-> 0]

\* The iteration without `remainder -= 1`.
divide_indices_step_keep(f) ==
    LET end == IF f.remainder > 0 THEN f.head + f.chunk_size + 1
               ELSE f.head + f.chunk_size
    IN  [chunk_size |-> f.chunk_size, remainder |-> f.remainder,
         indices |-> Append(f.indices, <<f.head, end>>),
         head |-> end, i |-> f.i + 1]

\* The iteration with `remainder >= 0` for `remainder > 0`.
divide_indices_step_ge(f) ==
    LET end == IF f.remainder >= 0 THEN f.head + f.chunk_size + 1
               ELSE f.head + f.chunk_size
    IN  [chunk_size |-> f.chunk_size,
         remainder |-> IF f.remainder >= 0 THEN f.remainder - 1 ELSE f.remainder,
         indices |-> Append(f.indices, <<f.head, end>>),
         head |-> end, i |-> f.i + 1]

\* divide_indices_by_n: one iteration of `for i in range(n)` on the locals f.
divide_indices_step(f) ==
    LET start == f.head
        end   == IF f.remainder > 0 THEN f.head + f.chunk_size + 1
                 ELSE f.head + f.chunk_size
    IN  [chunk_size |-> f.chunk_size,
         remainder  |-> IF f.remainder > 0 THEN f.remainder - 1 ELSE f.remainder,
         indices    |-> Append(f.indices, <<start, end>>),
         head       |-> end,
         i          |-> f.i + 1]

\* divide_sequence_by_n: the slices of seq for the boundary pairs.
slices_of(seq, indices) ==
    [k \in 1..Len(indices) |-> Slice(seq, indices[k][1], indices[k][2])]

(***************************************************************************)
(* Bounds of the inputs.                                                   *)
(***************************************************************************)
\* Grid sizes 0..MaxSize are explored with every coordinate and index.
MaxSize == 3
\* Sequences have at most MaxLen elements.
MaxLen == 4
\* A sequence is cut in up to MaxLen + Beyond parts, and in chunks of up to
\* MaxLen + 1 elements.
Beyond == 2

\* The grid size of tests/test_utils.py.
TestSize == 9

Elems == 0..1

\* The smallest size at which int(index / size) rounds up to size.
BigSize == PyInt(2^27)
\* A size whose larger quotients are beyond the range of a float.
HugeSize == Nat0(BigPow2(DBL_MAX_EXP + 1))

Sizes == {PyInt(k) : k \in 0..MaxSize} \cup {PyInt(TestSize), BigSize, HugeSize}

IsSmall(size) == BigCmp(size.mag, Big(TestSize)) <= 0

Pred(x) == Nat0(BigSub(x.mag, Big(1)))

\* Rows and columns tried for a size: all of -1..size for a small size,
\* the values around the bounds for the others.
Coords(size) ==
    IF IsSmall(size) THEN {PyInt(k) : k \in -1..Small(size.mag)}
    ELSE {PyInt(-1), PyInt(0), Pred(size), size}

\* Indices tried for a size: all of -1..size*size for a small size, the
\* values around the bounds and around a row's end for the others.
Indices(size) ==
    IF IsSmall(size)
    THEN {PyInt(k) : k \in -1..(Small(size.mag) * Small(size.mag))}
    ELSE {PyInt(-1), PyInt(0), Pred(size), size,
          Pred(IntMul(size, size)), IntMul(size, size)}

Seqs == UNION {[1..len -> Elems] : len \in 0..MaxLen}

(***************************************************************************)
(* State: one call of one function.  fn and args are the call, pc its      *)
(* position, ret what it returned or raised, frame the locals of           *)
(* divide_indices_by_n while it runs.                                      *)
(***************************************************************************)
VARIABLES fn, args, pc, ret, frame

vars == <<fn, args, pc, ret, frame>>

Pending == [status |-> "pending"]
NoFrame == [chunk_size |-> 0, remainder |-> 0, indices |-> << >>,
            head |-> 0, i |-> 0]

CodecInit ==
    /\ pc = "call" /\ ret = Pending /\ frame = NoFrame
    /\ \E size \in Sizes :
         \/ /\ fn \in {"tuple_to_index", "decode_of_encode"}
            /\ \E r \in Coords(size), c \in Coords(size) :
                 args = [t |-> <<r, c>>, size |-> size]
         \/ /\ fn \in {"index_to_tuple", "encode_of_decode"}
            /\ \E index \in Indices(size) :
                 args = [index |-> index, size |-> size]

PartitionInit ==
    /\ pc = "call" /\ ret = Pending /\ frame = NoFrame
    /\ \E seq \in Seqs :
         \/ /\ fn = "divide_sequence_into_chunks"
            /\ \E chunk_size \in -2..(MaxLen + 1) :
                 args = [seq |-> seq, chunk_size |-> chunk_size]
         \/ /\ fn = "divide_sequence_by_n"
            /\ \E n \in -1..(MaxLen + Beyond) :
                 args = [seq |-> seq, n |-> n]

Init == CodecInit \/ PartitionInit

Return(value) ==
    /\ ret' = value
    /\ pc' = "return"
    /\ UNCHANGED <<fn, args, frame>>

TupleToIndex ==
    /\ pc = "call" /\ fn = "tuple_to_index"
    /\ Return(tuple_to_index(args.t, args.size))

IndexToTuple ==
    /\ pc = "call" /\ fn = "index_to_tuple"
    /\ Return(index_to_tuple(args.index, args.size))

DecodeOfEncode ==
    /\ pc = "call" /\ fn = "decode_of_encode"
    /\ Return(decode_of_encode(args.t, args.size))

EncodeOfDecode ==
    /\ pc = "call" /\ fn = "encode_of_decode"
    /\ Return(encode_of_decode(args.index, args.size))

DivideSequenceIntoChunks ==
    /\ pc = "call" /\ fn = "divide_sequence_into_chunks"
    /\ Return(divide_sequence_into_chunks(args.seq, args.chunk_size))

\* divide_sequence_by_n calls divide_indices_by_n(len(seq), n).
DivideIndicesEnter ==
    /\ pc = "call" /\ fn = "divide_sequence_by_n"
    /\ IF args.n = 0
       THEN /\ ret' = [status |-> "ZeroDivisionError"]
            /\ pc' = "return"
            /\ UNCHANGED frame
       ELSE /\ frame' = divide_indices_enter(Len(args.seq), args.n)
            /\ pc' = "loop"
            /\ UNCHANGED ret
    /\ UNCHANGED <<fn, args>>

\* for i in range(n): one more iteration.
DivideIndicesLoop ==
    /\ pc = "loop" /\ frame.i < args.n
    /\ frame' = divide_indices_step(frame)
    /\ UNCHANGED <<fn, args, pc, ret>>

\* range(n) is exhausted: divide_indices_by_n returns indices and
\* divide_sequence_by_n returns the slices.
DivideSequenceByNReturn ==
    /\ pc = "loop" /\ frame.i >= args.n
    /\ Return([status |-> "ok", value |-> slices_of(args.seq, frame.indices)])

CodecNext == TupleToIndex \/ IndexToTuple \/ DecodeOfEncode \/ EncodeOfDecode

PartitionNext ==
    \/ DivideSequenceIntoChunks
    \/ DivideIndicesEnter
    \/ DivideIndicesLoop
    \/ DivideSequenceByNReturn

Next == CodecNext \/ PartitionNext

CodecSpec == CodecInit /\ [][CodecNext]_vars
PartitionSpec == PartitionInit /\ [][PartitionNext]_vars
Spec == Init /\ [][Next]_vars

(***************************************************************************)
(* Properties.                                                             *)
(***************************************************************************)
Returned(f) == pc = "return" /\ fn = f

Positive(size) == IntLt(PyInt(0), size)
InGrid(x, size) == IntLe(PyInt(0), x) /\ IntLt(x, size)
ValidTuple(t, size) == InGrid(t[1], size) /\ InGrid(t[2], size)
ValidIndex(index, size) ==
    IntLe(PyInt(0), index) /\ IntLt(index, IntMul(size, size))

RECURSIVE Flatten(_)
Flatten(ss) == IF Len(ss) = 0 THEN << >> ELSE Head(ss) \o Flatten(Tail(ss))

\* C1: for every size > 0 and every coordinate (r, c) of the grid,
\* index_to_tuple(tuple_to_index((r, c), size), size) succeeds and returns
\* exactly (r, c).
C1_DecodeOfEncodeIsIdentity ==
    (Returned("decode_of_encode") /\ Positive(args.size)
        /\ ValidTuple(args.t, args.size))
    => ret = [status |-> "ok", value |-> args.t]

\* C2: for every size > 0 and every index i with 0 <= i < size*size,
\* tuple_to_index(index_to_tuple(i, size), size) succeeds and returns
\* exactly i.
C2_EncodeOfDecodeIsIdentity ==
    (Returned("encode_of_decode") /\ Positive(args.size)
        /\ ValidIndex(args.index, args.size))
    => ret = [status |-> "ok", value |-> args.index]

\* C3: tuple_to_index((row, column), size) raises AssertionError and
\* returns no index whenever row < 0, row >= size, column < 0 or
\* column >= size, and succeeds for every coordinate of the grid.
C3_TupleToIndexBounds ==
    Returned("tuple_to_index")
    => IF ValidTuple(args.t, args.size)
       THEN ret.status = "ok"
       ELSE ret = AssertionError

\* C3 happens: a row equal to size is refused.
C3_RowAtSizeRefused ==
    /\ Returned("tuple_to_index")
    /\ Positive(args.size)
    /\ args.t[1] = args.size
    /\ InGrid(args.t[2], args.size)
    /\ ret = AssertionError

\* C4: index_to_tuple(index, size) raises AssertionError and returns no
\* coordinate whenever index < 0 or index >= size*size, and succeeds for
\* every index with 0 <= index < size*size.
C4_IndexToTupleBounds ==
    Returned("index_to_tuple")
    => IF ValidIndex(args.index, args.size)
       THEN ret.status = "ok"
       ELSE ret = AssertionError

\* C5: for 1 <= n <= L, divide_sequence_by_n(seq, n) returns exactly n
\* slices; the first L mod n have length L // n + 1, the others L // n.
C5_SlicesBalanced ==
    (Returned("divide_sequence_by_n")
        /\ 1 <= args.n /\ args.n <= Len(args.seq))
    => /\ ret.status = "ok"
       /\ Len(ret.value) = args.n
       /\ \A k \in 1..args.n :
            Len(ret.value[k]) =
                IF k <= Len(args.seq) % args.n
                THEN Len(args.seq) \div args.n + 1
                ELSE Len(args.seq) \div args.n

\* C5 happens: four elements in three parts, of lengths 2, 1, 1.
C5_FourInThree ==
    /\ Returned("divide_sequence_by_n")
    /\ Len(args.seq) = 4 /\ args.n = 3
    /\ ret.status = "ok"
    /\ Len(ret.value[1]) = 2 /\ Len(ret.value[3]) = 1

\* The k-th chunk (k >= 1) of seq for chunk size cs, element by element.
ExpectedChunk(seq, cs, k) ==
    [j \in 1..(IF k * cs <= Len(seq) THEN cs ELSE Len(seq) % cs) |->
        seq[(k - 1) * cs + j]]

\* C6: for chunk_size >= 1, divide_sequence_into_chunks(seq, chunk_size)
\* returns ceil(L / chunk_size) slices, slice k being
\* seq[k*chunk_size : (k+1)*chunk_size]: all of chunk_size elements but the
\* last, which has L mod chunk_size when that is not 0; an empty seq
\* yields an empty result.
C6_ChunksOfFixedSize ==
    (Returned("divide_sequence_into_chunks") /\ args.chunk_size >= 1)
    => /\ ret.status = "ok"
       /\ Len(ret.value) =
            (Len(args.seq) + args.chunk_size - 1) \div args.chunk_size
       /\ \A k \in 1..Len(ret.value) :
            ret.value[k] = ExpectedChunk(args.seq, args.chunk_size, k)
       /\ (args.seq = << >> => ret.value = << >>)

\* C6 happens: three elements in chunks of two leave a last chunk of one.
C6_ShortLastChunk ==
    /\ Returned("divide_sequence_into_chunks")
    /\ Len(args.seq) = 3 /\ args.chunk_size = 2
    /\ ret.status = "ok"
    /\ Len(ret.value) = 2 /\ Len(ret.value[2]) = 1

\* C7: for valid input (chunk_size >= 1; 1 <= n <= len(seq)) the slices
\* returned by either function, concatenated in output order, are seq: no
\* element is dropped, duplicated or reordered.
C7_ConcatenationIsSeq ==
    (\/ Returned("divide_sequence_into_chunks") /\ args.chunk_size >= 1
     \/ Returned("divide_sequence_by_n")
          /\ 1 <= args.n /\ args.n <= Len(args.seq))
    => /\ ret.status = "ok"
       /\ Flatten(ret.value) = args.seq

\* C7 happens: <<0, 1, 1, 0>> is cut in three parts that join back to it.
C7_CutAndJoined ==
    /\ Returned("divide_sequence_by_n")
    /\ args.seq = <<0, 1, 1, 0>> /\ args.n = 3
    /\ ret.status = "ok"
    /\ ret.value = << <<0, 1>>, <<1>>, <<0>> >>

\* C8: divide_sequence_into_chunks(seq, chunk_size) with chunk_size <= 0
\* fails with an error for any seq: it never returns a result.
C8_NonPositiveChunkSizeFails ==
    (Returned("divide_sequence_into_chunks") /\ args.chunk_size <= 0)
    => ret.status # "ok"

\* C9: the codec is the row-major mapping: for a coordinate of the grid
\* tuple_to_index returns row*size + column, in [0, size*size); for a valid
\* index index_to_tuple returns (index // size, index % size), the floor
\* division and the modulo of integers.
C9_RowMajor ==
    /\ (Returned("tuple_to_index") /\ ValidTuple(args.t, args.size))
       => /\ ret.status = "ok"
          /\ ret.value = Nat0(BigAdd(BigMul(args.t[1].mag, args.size.mag),
                                     args.t[2].mag))
          /\ ValidIndex(ret.value, args.size)
    /\ (Returned("index_to_tuple") /\ ValidIndex(args.index, args.size))
       => ret = [status |-> "ok",
                 value  |-> <<Nat0(BigDivMod(args.index.mag, args.size.mag).q),
                              Nat0(BigDivMod(args.index.mag, args.size.mag).r)>>]

\* Each boundary pair starts where the previous one ended, the first at 0.
Chained(indices) ==
    \A k \in 1..Len(indices) :
        indices[k][1] = IF k = 1 THEN 0 ELSE indices[k - 1][2]

\* C10: for n > len(seq) = L, n >= 1, divide_sequence_by_n(seq, n) raises
\* nothing and returns n slices that join back to seq, the first L of one
\* element each and the others empty; throughout the loop of
\* divide_indices_by_n, remainder never goes below 0 and each boundary pair
\* starts where the previous one ended, the first at 0 and the last ending
\* at L.
C10_MorePartsThanElements ==
    (fn = "divide_sequence_by_n" /\ args.n >= 1 /\ args.n > Len(args.seq))
    => /\ pc \in {"loop", "return"}
          => /\ frame.remainder >= 0
             /\ Chained(frame.indices)
       /\ pc = "return"
          => /\ ret.status = "ok"
             /\ Len(ret.value) = args.n
             /\ \A k \in 1..args.n :
                  ret.value[k] = IF k <= Len(args.seq) THEN <<args.seq[k]>>
                                 ELSE << >>
             /\ Flatten(ret.value) = args.seq
             /\ frame.indices[args.n][2] = Len(args.seq)

\* C10 happens: two elements in four parts, the last two empty.
C10_TwoInFour ==
    /\ Returned("divide_sequence_by_n")
    /\ Len(args.seq) = 2 /\ args.n = 4
    /\ ret.status = "ok"
    /\ Len(ret.value) = 4
    /\ ret.value[3] = << >> /\ ret.value[4] = << >>

=============================================================================
